---- MODULE Spec2Model ----
(***************************************************************************)
(* A model of llama (src/main.go): the terminal directory browser's        *)
(* model struct, its Update handler (one action per message and key), its  *)
(* View render (layout, find-previous-name, scroll slice, location bar),   *)
(* and the asynchronous commands Update returns (previewCmd, the           *)
(* clear-search tick).  The runtime delivers one message at a time and      *)
(* renders View after every Update; a runtime panic stops the program.     *)
(***************************************************************************)
EXTENDS Integers, Sequences, FiniteSets, TLC

VARIABLES
    path,           \* m.path: sequence of names, <<>> is the root
    files,          \* m.files: sequence of [name, dir]
    c, r,           \* m.c, m.r
    columns, rows,  \* m.columns, m.rows
    width, height,  \* m.width, m.height
    offset,         \* m.offset
    positions,      \* m.positions: path -> NoPos or [c, r, offset]
    search,         \* m.search: sequence of characters
    searchMode,     \* m.searchMode
    searchId,       \* m.searchId
    prevName,       \* m.prevName
    findPrevName,   \* m.findPrevName
    exitCode,       \* m.exitCode
    previewMode,    \* m.previewMode
    previewContent, \* m.previewContent
    phase,          \* "view": a render is due; "update": waiting for a message; "done": quit
    fault,          \* "none", or the runtime panic that stopped the program
    lastMsg,        \* the message the last Update processed (reset by View)
    lastCmd,        \* the command the last Update returned (reset by View)
    timers,         \* clear-search ticks in flight, oldest first: their ids
    cmds,           \* previewCmd closures handed to the runtime, not yet run
    previews,       \* previewMsg messages in flight: set of file paths
    stdout          \* what fmt.Println wrote: sequence of paths

vars == <<path, files, c, r, columns, rows, width, height, offset, positions,
          search, searchMode, searchId, prevName, findPrevName, exitCode,
          previewMode, previewContent, phase, fault, lastMsg, lastCmd,
          timers, cmds, previews, stdout>>

----------------------------------------------------------------------------
(* Bounds of the model. *)

MaxFiles == 5       \* entries of a listing drawn in NavInit
MaxWidth == 16      \* terminal widths drawn in NavInit: 1..MaxWidth
MaxHeight == 7      \* terminal heights drawn in NavInit: 3..MaxHeight
MaxSearchLen == 2   \* characters typed into one query
MaxSearchId == 2    \* activations of Search mode
MaxTimers == 2      \* clear-search ticks in flight
MaxCmds == 1        \* previewCmd closures waiting to run
MaxMsgs == 2        \* previewMsg messages in flight

(* Program constants. *)

InitWidth == 80
InitHeight == 60
SeparatorLen == 4
ForcedExit == 2

----------------------------------------------------------------------------
(* The file system the program browses.  os.ReadDir returns the entries    *)
(* sorted by name.                                                         *)

Entry(n, d) == [name |-> n, dir |-> d]

RootPath == <<>>
GPath == << <<"g">> >>
LPath == << <<"l">> >>
Paths == {RootPath, GPath, LPath}

RootFiles ==
    << Entry(<<"g">>, TRUE), Entry(<<"h">>, FALSE),
       Entry(<<"k">>, FALSE), Entry(<<"l">>, TRUE) >>

GFiles ==
    << Entry(<<"a">>, FALSE), Entry(<<"h">>, FALSE), Entry(<<"h", "k">>, FALSE),
       Entry(<<"k">>, FALSE), Entry(<<"z">>, FALSE) >>

ReadDir(p) ==
    CASE p = RootPath -> RootFiles
      [] p = GPath -> GFiles
      [] OTHER -> <<>>

\* filepath.Join(m.path, ".."), filepath.Base(m.path), path.Join(m.path, name)
Parent(p) == IF p = <<>> THEN <<>> ELSE SubSeq(p, 1, Len(p) - 1)
Base(p) == IF p = <<>> THEN <<"/">> ELSE p[Len(p)]
Join(p, n) == Append(p, n)

IsDir(p) == p \in Paths

\* Terminal sizes a resize event delivers: one too narrow for two columns,
\* one wide enough for several.
NarrowSizes == { <<5, 4>> }
WideSizes == { <<16, 4>> }
Sizes == NarrowSizes \cup WideSizes

\* Characters typed in Spec.
Runes == {"h", "k"}

\* The entries listings are drawn from in NavInit, in name order.
Pool ==
    << Entry(<<"a">>, FALSE), Entry(<<"b">>, TRUE), Entry(<<"c">>, FALSE),
       Entry(<<"d">>, FALSE), Entry(<<"e", "e">>, FALSE), Entry(<<"f">>, FALSE) >>

RECURSIVE Pick(_, _)
Pick(s, S) ==
    IF s = <<>> THEN <<>>
    ELSE (IF Len(s) \in S THEN Pick(SubSeq(s, 1, Len(s) - 1), S) \o <<s[Len(s)]>>
          ELSE Pick(SubSeq(s, 1, Len(s) - 1), S))

Listings ==
    { Pick(Pool, S) : S \in { T \in SUBSET (1..Len(Pool)) : Cardinality(T) <= MaxFiles } }

----------------------------------------------------------------------------
(* Helpers of the model struct. *)

NoPos == [c |-> -1, r |-> -1, offset |-> -1, set |-> FALSE]
Pos(cc, rr, off) == [c |-> cc, r |-> rr, offset |-> off, set |-> TRUE]

NoMsg == [type |-> "none", key |-> "", id |-> 0]
KeyMsg(k) == [type |-> "key", key |-> k, id |-> 0]
RuneMsg(ch) == [type |-> "rune", key |-> ch, id |-> 0]
ResizeMsg == [type |-> "resize", key |-> "", id |-> 0]
ClearMsg(id) == [type |-> "clearSearch", key |-> "", id |-> id]
PreviewMsg == [type |-> "preview", key |-> "", id |-> 0]

ListHeightOf(h) == h - 1
listHeight == ListHeightOf(height)

\* m.fileName(): the index it computes, whether it faults, whether it is ok
FileIndex == c * rows + r
FileNameFaults == FileIndex < 0
FileNameOk == FileIndex >= 0 /\ FileIndex < Len(files)
fileName == files[FileIndex + 1].name
filePath == Join(path, fileName)

\* m.updateOffset(), as a function of the fields it reads
updateOffset(rr, off, rws, h) ==
    LET o1 == IF rr >= off + h THEN rr - h + 1 ELSE off
        o2 == IF rr < o1 THEN rr ELSE o1
    IN  IF o2 > rws - h /\ rws > h THEN rws - h ELSE o2

\* m.saveCursorPosition()
saveCursorPosition(ps, p, cc, rr, off) == [ps EXCEPT ![p] = Pos(cc, rr, off)]

----------------------------------------------------------------------------
(* The cursor moves, as functions of (c, r, columns, rows, len(files)). *)

Cur(cc, rr) == [c |-> cc, r |-> rr]

\* m.c == m.columns-1 && (m.columns-1)*m.rows+m.r >= len(m.files)
PastEnd(cc, rr, cols, rws, n) == cc = cols - 1 /\ (cols - 1) * rws + rr >= n
\* m.rows - 1 - (m.columns*m.rows - len(m.files))
LastRow(cols, rws, n) == rws - 1 - (cols * rws - n)

moveUp(cc, rr, cols, rws, n) ==
    LET a == IF rr - 1 < 0 THEN Cur(cc - 1, rws - 1) ELSE Cur(cc, rr - 1)
    IN  IF a.c < 0 THEN Cur(cols - 1, LastRow(cols, rws, n)) ELSE a

moveDown(cc, rr, cols, rws, n) ==
    LET a == IF rr + 1 >= rws THEN Cur(cc + 1, 0) ELSE Cur(cc, rr + 1)
        b == IF a.c >= cols THEN Cur(0, a.r) ELSE a
    IN  IF PastEnd(b.c, b.r, cols, rws, n) THEN Cur(0, 0) ELSE b

moveLeft(cc, rr, cols, rws, n) ==
    LET a == IF cc - 1 < 0 THEN Cur(cols - 1, rr) ELSE Cur(cc - 1, rr)
    IN  IF PastEnd(a.c, a.r, cols, rws, n)
        THEN Cur(cols - 1, LastRow(cols, rws, n)) ELSE a

moveRight(cc, rr, cols, rws, n) ==
    LET a == IF cc + 1 >= cols THEN Cur(0, rr) ELSE Cur(cc + 1, rr)
    IN  IF PastEnd(a.c, a.r, cols, rws, n)
        THEN Cur(cols - 1, LastRow(cols, rws, n)) ELSE a

moveTop(cc, rr, cols, rws, n) == Cur(cc, 0)

moveBottom(cc, rr, cols, rws, n) ==
    IF PastEnd(cc, rws - 1, cols, rws, n)
    THEN Cur(cc, LastRow(cols, rws, n)) ELSE Cur(cc, rws - 1)

moveLeftmost(cc, rr, cols, rws, n) == Cur(0, rr)

moveRightmost(cc, rr, cols, rws, n) ==
    IF PastEnd(cols - 1, rr, cols, rws, n)
    THEN Cur(cols - 1, LastRow(cols, rws, n)) ELSE Cur(cols - 1, rr)

MoveKeys == {"up", "down", "left", "right", "shift+up", "shift+down",
             "shift+left", "shift+right"}

Move(k, cc, rr, cols, rws, n) ==
    CASE k = "up" -> moveUp(cc, rr, cols, rws, n)
      [] k = "down" -> moveDown(cc, rr, cols, rws, n)
      [] k = "left" -> moveLeft(cc, rr, cols, rws, n)
      [] k = "right" -> moveRight(cc, rr, cols, rws, n)
      [] k = "shift+up" -> moveTop(cc, rr, cols, rws, n)
      [] k = "shift+down" -> moveBottom(cc, rr, cols, rws, n)
      [] k = "shift+left" -> moveLeftmost(cc, rr, cols, rws, n)
      [] k = "shift+right" -> moveRightmost(cc, rr, cols, rws, n)

----------------------------------------------------------------------------
(* The layout step of View. *)

\* int(math.Ceil(float64(len(m.files)) / float64(m.columns)))
Ceil(n, d) == (n + d - 1) \div d

Max(a, b) == IF a > b THEN a ELSE b

\* len(name) of cell (i, j): entries fill the grid column by column; a
\* directory gets a trailing slash; a cell past the last entry is empty
CellLen(fs, rws, i, j) ==
    LET n == i * rws + j + 1
    IN  IF n <= Len(fs) THEN Len(fs[n].name) + (IF fs[n].dir THEN 1 ELSE 0) ELSE 0

RECURSIVE ColMax(_, _, _, _)
ColMax(fs, rws, i, j) ==
    IF j < 0 THEN 0 ELSE Max(CellLen(fs, rws, i, j), ColMax(fs, rws, i, j - 1))

\* the padded cell: names[i][j] += Repeat(" ", max-len(names[i][j]))
PaddedLen(fs, rws, i, j) ==
    LET m == ColMax(fs, rws, i, rws - 1)
    IN  CellLen(fs, rws, i, j) + (m - CellLen(fs, rws, i, j))

RECURSIVE JoinLen(_, _, _, _)
\* len(Join(row, separator)) over columns 0..i of row j
JoinLen(fs, rws, i, j) ==
    IF i < 0 THEN 0
    ELSE IF i = 0 THEN PaddedLen(fs, rws, 0, j)
    ELSE JoinLen(fs, rws, i - 1, j) + SeparatorLen + PaddedLen(fs, rws, i, j)

RowLen(fs, cols, rws, j) == JoinLen(fs, rws, cols - 1, j)

RowsFit(fs, cols, rws, w) == \A j \in 0..(rws - 1) : RowLen(fs, cols, rws, j) <= w

\* a layout that keeps the first column count: no second try
LayoutNoRetry(fs, cols, w) == [columns |-> cols, rows |-> Ceil(Len(fs), cols)]

\* the label start: compute rows, and go back with one column less while
\* some row is too wide and there is more than one column
RECURSIVE LayoutRetry(_, _, _)
LayoutRetry(fs, cols, w) ==
    LET rws == Ceil(Len(fs), cols)
    IN  IF ~RowsFit(fs, cols, rws, w) /\ cols > 1
        THEN LayoutRetry(fs, cols - 1, w)
        ELSE [columns |-> cols, rows |-> rws]

\* m.columns = len(m.files) / (height / 3), at least 1
InitialColumns(n, h) == IF n \div (h \div 3) <= 0 THEN 1 ELSE n \div (h \div 3)

ViewWidth == IF previewMode THEN width \div 2 ELSE width

\* a lookup that stops at the first entry, whatever its name
IndexOfFirst(fs, nm, i) == IF i > Len(fs) THEN 0 ELSE i

\* the index of prevName among the entries, 0 when it is not there
RECURSIVE IndexOf(_, _, _)
IndexOf(fs, nm, i) ==
    IF i > Len(fs) THEN 0
    ELSE IF fs[i].name = nm THEN i ELSE IndexOf(fs, nm, i + 1)

----------------------------------------------------------------------------
(* The fuzzy matcher (github.com/sahilm/fuzzy), by its interface: a        *)
(* candidate matches when the query's characters occur in it in order; the *)
(* matches are ranked by score, ties in source order.                      *)

NoMatch == <<0>>

\* the positions of the leftmost occurrence of q in nm from ni on
RECURSIVE MatchAt(_, _, _)
MatchAt(q, nm, ni) ==
    IF q = <<>> THEN <<>>
    ELSE IF ni > Len(nm) THEN NoMatch
    ELSE IF nm[ni] = Head(q)
         THEN LET rest == MatchAt(Tail(q), nm, ni + 1)
              IN  IF rest = NoMatch THEN NoMatch ELSE <<ni>> \o rest
         ELSE MatchAt(q, nm, ni + 1)

Matches(q, nm) == q # <<>> /\ MatchAt(q, nm, 1) # NoMatch

Score(q, nm) ==
    LET ps == MatchAt(q, nm, 1)
        first == IF ps[1] = 1 THEN 10 ELSE 0
        adjacent == 5 * Cardinality({i \in 1..(Len(ps) - 1) : ps[i + 1] = ps[i] + 1})
        leading == IF 5 * (ps[1] - 1) > 15 THEN -15 ELSE -5 * (ps[1] - 1)
    IN  first + adjacent + leading + (Len(ps) - Len(nm))

\* the source indexes (from 0) of the matches
Matched(q, fs) == {i \in 0..(Len(fs) - 1) : Matches(q, fs[i + 1].name)}

\* matches[0].Index
TopIndex(q, fs) ==
    CHOOSE i \in Matched(q, fs) :
        \A j \in Matched(q, fs) :
            \/ Score(q, fs[i + 1].name) > Score(q, fs[j + 1].name)
            \/ Score(q, fs[i + 1].name) = Score(q, fs[j + 1].name) /\ i <= j

----------------------------------------------------------------------------
(* What a preview load reads. *)

NoContent == [kind |-> "empty", of |-> <<>>]

\* os.Open, io.ReadAll, utf8.Valid: a directory reads as no bytes, the
\* file z is not valid UTF-8
Content(p) ==
    IF IsDir(p) THEN NoContent
    ELSE IF Base(p) = <<"z">> THEN [kind |-> "warning", of |-> <<>>]
    ELSE [kind |-> "text", of |-> p]

----------------------------------------------------------------------------
(* Update and View. *)

Ready == phase = "update" /\ fault = "none"

\* a runtime panic: the program stops where it is
Crash(f) ==
    /\ fault' = f
    /\ UNCHANGED <<path, files, c, r, columns, rows, width, height, offset,
                   positions, search, searchMode, searchId, prevName,
                   findPrevName, exitCode, previewMode, previewContent, phase,
                   lastMsg, lastCmd, timers, cmds, previews, stdout>>

\* Update returns cmd to the runtime; previewCmd runs later, on its own
Return(msg, cmd) ==
    /\ phase' = "view"
    /\ lastMsg' = msg
    /\ lastCmd' = cmd
    /\ IF cmd \in {"previewCmd", "sequence"}
       THEN cmds < MaxCmds /\ cmds' = cmds + 1
       ELSE cmds' = cmds
    /\ fault' = fault

\* the end of the key branch: updateOffset, saveCursorPosition, previewCmd
AfterKey(msg, p2, c2, r2, off2) ==
    LET off3 == updateOffset(r2, off2, rows, listHeight)
    IN  /\ c' = c2
        /\ r' = r2
        /\ offset' = off3
        /\ positions' = saveCursorPosition(positions, p2, c2, r2, off3)
        /\ Return(msg, IF previewMode THEN "previewCmd" ELSE "nil")

\* a render that never looks for prevName
FoundNothing(fs, nm, find, rws, cc, rr) == Cur(cc, rr)

\* the cursor View leaves: on prevName when it is looking for it
Found(fs, nm, find, rws, cc, rr) ==
    LET at == IndexOf(fs, nm, 1)
    IN  IF find /\ at > 0 THEN Cur((at - 1) \div rws, (at - 1) % rws) ELSE Cur(cc, rr)

View ==
    /\ phase = "view"
    /\ fault = "none"
    /\ IF listHeight \div 3 = 0
       THEN Crash("integer divide by zero")
       ELSE
         \E g \in {LayoutRetry(files, InitialColumns(Len(files), listHeight), ViewWidth)} :
         \E to \in {Found(files, prevName, findPrevName, g.rows, c, r)} :
         \E off1 \in {IF findPrevName
                       THEN updateOffset(to.r, offset, g.rows, listHeight)
                       ELSE offset} :
             \* output[m.offset : m.offset+height]
             IF g.rows >= off1 + listHeight /\ off1 < 0
             THEN Crash("slice bounds out of range")
             \* location[barLen-width:]
             ELSE IF searchMode /\ 1 + Len(search) > ViewWidth
             THEN Crash("slice bounds out of range")
             ELSE
               /\ columns' = g.columns
               /\ rows' = g.rows
               /\ c' = to.c
               /\ r' = to.r
               /\ offset' = off1
               /\ positions' = IF findPrevName
                               THEN saveCursorPosition(positions, path, to.c, to.r, off1)
                               ELSE positions
               /\ findPrevName' = FALSE
               /\ phase' = "update"
               /\ lastMsg' = NoMsg
               /\ lastCmd' = "nil"
               /\ UNCHANGED <<path, files, width, height, search, searchMode,
                              searchId, prevName, exitCode, previewMode,
                              previewContent, fault, timers, cmds, previews, stdout>>

\* case tea.WindowSizeMsg
Resize(w, h) ==
    /\ Ready
    /\ IF FileNameFaults
       THEN Crash("index out of range")
       ELSE
         /\ width' = w
         /\ height' = h
         /\ positions' = [p \in Paths |-> NoPos]
         /\ IF FileNameOk
            THEN prevName' = fileName /\ findPrevName' = TRUE
            ELSE UNCHANGED <<prevName, findPrevName>>
         /\ c' = 0
         /\ r' = 0
         /\ Return(ResizeMsg, "nil")
         /\ UNCHANGED <<path, files, columns, rows, offset, search, searchMode,
                        searchId, exitCode, previewMode, previewContent,
                        timers, previews, stdout>>

\* the keys of the cursor moves; a key that is not a character reaches the
\* switch in Search mode too
KeyMove(k) ==
    /\ Ready
    /\ LET to == Move(k, c, r, columns, rows, Len(files))
       IN  AfterKey(KeyMsg(k), path, to.c, to.r, offset)
    /\ UNCHANGED <<path, files, columns, rows, width, height, search,
                   searchMode, searchId, prevName, findPrevName, exitCode,
                   previewMode, previewContent, timers, previews, stdout>>

\* the characters that are keys of the switch in Browse mode
VimMove(ch) ==
    CASE ch = "k" -> "up"
      [] ch = "j" -> "down"
      [] ch = "h" -> "left"
      [] ch = "l" -> "right"
      [] ch = "g" -> "shift+up"
      [] ch = "G" -> "shift+down"
      [] OTHER -> ""

\* a character typed in Browse mode: a vi key moves, any other key does
\* nothing before the end of the key branch
BrowseRune(ch) ==
    /\ Ready
    /\ ~searchMode
    /\ LET to == IF VimMove(ch) = "" THEN Cur(c, r)
                 ELSE Move(VimMove(ch), c, r, columns, rows, Len(files))
       IN  AfterKey(RuneMsg(ch), path, to.c, to.r, offset)
    /\ UNCHANGED <<path, files, columns, rows, width, height, search,
                   searchMode, searchId, prevName, findPrevName, exitCode,
                   previewMode, previewContent, timers, previews, stdout>>

\* keySearch in Search mode
SearchExit ==
    /\ Ready
    /\ searchMode
    /\ searchMode' = FALSE
    /\ Return(KeyMsg("/"), "nil")
    /\ UNCHANGED <<path, files, c, r, columns, rows, width, height, offset,
                   positions, search, searchId, prevName, findPrevName,
                   exitCode, previewMode, previewContent, timers, previews,
                   stdout>>

\* keyBack in Search mode with a query
SearchBack ==
    /\ Ready
    /\ searchMode
    /\ Len(search) > 0
    /\ search' = SubSeq(search, 1, Len(search) - 1)
    /\ Return(KeyMsg("backspace"), "nil")
    /\ UNCHANGED <<path, files, c, r, columns, rows, width, height, offset,
                   positions, searchMode, searchId, prevName, findPrevName,
                   exitCode, previewMode, previewContent, timers, previews,
                   stdout>>

\* a relocation with the quotient and the remainder swapped
SearchCursorSwapped(q, fs, cc, rr, rws) ==
    IF Matched(q, fs) # {}
    THEN LET index == TopIndex(q, fs) IN Cur(index % rws, index \div rws)
    ELSE Cur(cc, rr)

\* where a query keystroke puts the cursor
SearchCursor(q, fs, cc, rr, rws) ==
    IF Matched(q, fs) # {}
    THEN LET index == TopIndex(q, fs) IN Cur(index \div rws, index % rws)
    ELSE Cur(cc, rr)

\* the tag of the tick a query keystroke schedules
TickId(id) == id

\* a character typed in Search mode
SearchRune(ch) ==
    /\ Ready
    /\ searchMode
    /\ Len(search) < MaxSearchLen
    /\ Len(timers) < MaxTimers
    /\ LET q == Append(search, ch)
       IN  IF Matched(q, files) # {} /\ rows = 0
           THEN Crash("integer divide by zero")
           ELSE
             \E to \in {SearchCursor(q, files, c, r, rows)} :
             \E off1 \in {updateOffset(to.r, offset, rows, listHeight)} :
                 /\ search' = q
                 /\ c' = to.c
                 /\ r' = to.r
                 /\ offset' = off1
                 /\ positions' = saveCursorPosition(positions, path, to.c, to.r, off1)
                 /\ timers' = Append(timers, TickId(searchId))
                 /\ Return(RuneMsg(ch), "tick")
                 /\ UNCHANGED <<path, files, columns, rows, width, height,
                                searchMode, searchId, prevName, findPrevName,
                                exitCode, previewMode, previewContent,
                                previews, stdout>>

\* keyForceQuit
KeyForceQuit ==
    /\ Ready
    /\ exitCode' = ForcedExit
    /\ phase' = "done"
    /\ lastMsg' = KeyMsg("ctrl+c")
    /\ lastCmd' = "quit"
    /\ UNCHANGED <<path, files, c, r, columns, rows, width, height, offset,
                   positions, search, searchMode, searchId, prevName,
                   findPrevName, previewMode, previewContent, fault, timers,
                   cmds, previews, stdout>>

\* a quit that writes nothing
PrintedNothing(out, p) == out

\* fmt.Println(m.path)
Printed(out, p) == Append(out, p)

\* keyQuit
KeyQuit ==
    /\ Ready
    /\ stdout' = Printed(stdout, path)
    /\ exitCode' = 0
    /\ phase' = "done"
    /\ lastMsg' = KeyMsg("esc")
    /\ lastCmd' = "quit"
    /\ UNCHANGED <<path, files, c, r, columns, rows, width, height, offset,
                   positions, search, searchMode, searchId, prevName,
                   findPrevName, previewMode, previewContent, fault, timers,
                   cmds, previews>>

\* the position Enter and Backspace restore for a directory
Restored(ps, p, cc, rr, off) ==
    IF ps[p].set THEN Pos(ps[p].c, ps[p].r, ps[p].offset) ELSE Pos(cc, rr, off)

\* keyOpen
KeyOpen ==
    /\ Ready
    /\ IF FileNameFaults
       THEN Crash("index out of range")
       ELSE
         /\ searchMode' = FALSE
         /\ IF ~FileNameOk
            THEN /\ Return(KeyMsg("enter"), "nil")
                 /\ UNCHANGED <<path, files, c, r, offset, positions>>
            ELSE IF IsDir(filePath)
            THEN LET p == Restored(positions, filePath, 0, 0, 0)
                 IN  /\ path' = filePath
                     /\ files' = ReadDir(filePath)
                     /\ AfterKey(KeyMsg("enter"), filePath, p.c, p.r, p.offset)
            ELSE /\ Return(KeyMsg("enter"), "exec")
                 /\ UNCHANGED <<path, files, c, r, offset, positions>>
         /\ UNCHANGED <<columns, rows, width, height, search, searchId,
                        prevName, findPrevName, exitCode, previewMode,
                        previewContent, timers, previews, stdout>>

\* keyBack, in Browse mode or in Search mode with an empty query
KeyBack ==
    /\ Ready
    /\ ~searchMode \/ Len(search) = 0
    /\ searchMode' = FALSE
    /\ prevName' = Base(path)
    /\ path' = Parent(path)
    /\ LET p == Restored(positions, Parent(path), c, r, offset)
       IN  /\ c' = p.c
           /\ r' = p.r
           /\ offset' = p.offset
    /\ findPrevName' = (IF positions[Parent(path)].set THEN findPrevName ELSE TRUE)
    /\ files' = ReadDir(Parent(path))
    /\ Return(KeyMsg("backspace"), IF previewMode THEN "previewCmd" ELSE "nil")
    /\ UNCHANGED <<columns, rows, width, height, positions, search, searchId,
                   exitCode, previewMode, previewContent, timers, previews,
                   stdout>>

\* an activation that keeps the search id
SameSearchId(id) == id

\* m.searchId++
NextSearchId(id) == id + 1

\* keySearch in Browse mode
KeySearch ==
    /\ Ready
    /\ ~searchMode
    /\ searchId < MaxSearchId
    /\ searchMode' = TRUE
    /\ searchId' = NextSearchId(searchId)
    /\ search' = <<>>
    /\ AfterKey(KeyMsg("/"), path, c, r, offset)
    /\ UNCHANGED <<path, files, columns, rows, width, height, prevName,
                   findPrevName, exitCode, previewMode, previewContent,
                   timers, previews, stdout>>

\* a preview key that keeps the position map
KeptPositions(ps) == ps

\* what keyPreview leaves in m.positions
PreviewPositions(ps) == [p \in Paths |-> NoPos]

\* keyPreview.  In Search mode the key reaches this case when the terminal
\* library reports the space bar as a key of its own, not as a rune.
KeyPreview ==
    /\ Ready
    /\ IF FileNameFaults
       THEN Crash("index out of range")
       ELSE
         /\ previewMode' = ~previewMode
         /\ positions' = PreviewPositions(positions)
         /\ IF ~FileNameOk
            THEN /\ Return(KeyMsg(" "), "nil")
                 /\ UNCHANGED <<prevName, findPrevName, previewContent>>
            ELSE /\ prevName' = fileName
                 /\ findPrevName' = TRUE
                 /\ IF ~previewMode
                    THEN /\ Return(KeyMsg(" "), "sequence")
                         /\ UNCHANGED previewContent
                    ELSE /\ previewContent' = NoContent
                         /\ Return(KeyMsg(" "), "exitAltScreen")
         /\ UNCHANGED <<path, files, c, r, columns, rows, width, height,
                        offset, search, searchMode, searchId, exitCode,
                        timers, previews, stdout>>

\* a tick that ends Search mode whatever its tag
ClearedAlways(id, sid, mode) == FALSE

\* a tick that never ends Search mode
ClearedNever(id, sid, mode) == mode

\* what a clearSearchMsg tagged id leaves in m.searchMode
Cleared(id, sid, mode) == IF sid = id THEN FALSE ELSE mode

\* case clearSearchMsg: the ticks all wait two seconds, so they arrive in
\* the order they were scheduled
ClearSearch ==
    /\ Ready
    /\ timers # <<>>
    /\ timers' = Tail(timers)
    /\ searchMode' = Cleared(Head(timers), searchId, searchMode)
    /\ Return(ClearMsg(Head(timers)), "nil")
    /\ UNCHANGED <<path, files, c, r, columns, rows, width, height, offset,
                   positions, search, searchId, prevName, findPrevName,
                   exitCode, previewMode, previewContent, previews, stdout>>

\* case previewMsg
PreviewLoaded(p) ==
    /\ Ready
    /\ p \in previews
    /\ previews' = previews \ {p}
    /\ previewContent' = Content(p)
    /\ Return(PreviewMsg, "nil")
    /\ UNCHANGED <<path, files, c, r, columns, rows, width, height, offset,
                   positions, search, searchMode, searchId, prevName,
                   findPrevName, exitCode, previewMode, timers, stdout>>

\* m.previewCmd, run by the runtime on its own goroutine: it reads the model
\* whenever it is scheduled, before or after the render and later messages
RunPreviewCmd ==
    /\ phase \in {"view", "update"}
    /\ fault = "none"
    /\ cmds > 0
    /\ IF FileNameFaults
       THEN Crash("index out of range")
       ELSE
         /\ cmds' = cmds - 1
         /\ IF FileNameOk
            THEN /\ filePath \in previews \/ Cardinality(previews) < MaxMsgs
                 /\ previews' = previews \cup {filePath}
            ELSE UNCHANGED previews
         /\ UNCHANGED <<path, files, c, r, columns, rows, width, height,
                        offset, positions, search, searchMode, searchId,
                        prevName, findPrevName, exitCode, previewMode,
                        previewContent, phase, fault, lastMsg, lastCmd,
                        timers, stdout>>

\* main(): the model before the first render; the start path is the working
\* directory or the argument
Init ==
    /\ path \in Paths
    /\ files = ReadDir(path)
    /\ c = 0 /\ r = 0
    /\ columns = 0
    /\ rows = 0
    /\ width = InitWidth
    /\ height = InitHeight
    /\ offset = 0
    /\ positions = [p \in Paths |-> NoPos]
    /\ search = <<>>
    /\ searchMode = FALSE
    /\ searchId = 0
    /\ prevName = <<>>
    /\ findPrevName = FALSE
    /\ exitCode = 0
    /\ previewMode = FALSE
    /\ previewContent = NoContent
    /\ phase = "view"
    /\ fault = "none"
    /\ lastMsg = NoMsg
    /\ lastCmd = "nil"
    /\ timers = <<>>
    /\ cmds = 0
    /\ previews = {}
    /\ stdout = <<>>

Next ==
    \/ View
    \/ \E s \in Sizes : Resize(s[1], s[2])
    \/ \E k \in MoveKeys : KeyMove(k)
    \/ \E ch \in Runes : BrowseRune(ch)
    \/ \E ch \in Runes : SearchRune(ch)
    \/ SearchExit
    \/ SearchBack
    \/ KeyForceQuit
    \/ KeyQuit
    \/ KeyOpen
    \/ KeyBack
    \/ KeySearch
    \/ KeyPreview
    \/ ClearSearch
    \/ \E p \in previews : PreviewLoaded(p)
    \/ RunPreviewCmd

Spec == Init /\ [][Next]_vars

----------------------------------------------------------------------------
(* The specifications.  Spec is the whole program.  The others are the     *)
(* program with part of the keyboard: each is a set of runs of Spec (from  *)
(* the first render on), small enough to be explored in full.              *)

\* Directory navigation: moves, Enter, Backspace, resizes, quitting.
BrowseNext ==
    \/ View
    \/ \E s \in Sizes : Resize(s[1], s[2])
    \/ \E k \in MoveKeys : KeyMove(k)
    \/ KeyOpen
    \/ KeyBack
    \/ KeyQuit
    \/ KeyForceQuit

BrowseSpec == Init /\ [][BrowseNext]_vars

\* Type-to-select in one directory: the search keys, the clear-search tick,
\* moves, resizes to the wide size, quitting.
SearchNext ==
    \/ View
    \/ \E s \in WideSizes : Resize(s[1], s[2])
    \/ \E k \in MoveKeys : KeyMove(k)
    \/ \E ch \in Runes : BrowseRune(ch)
    \/ \E ch \in Runes : SearchRune(ch)
    \/ SearchExit
    \/ SearchBack
    \/ KeySearch
    \/ ClearSearch
    \/ KeyQuit
    \/ KeyForceQuit

SearchSpec == Init /\ [][SearchNext]_vars

\* Loading previews in one directory at one terminal size: the toggle, the
\* moves, the loads and their completions.
LoadNext ==
    \/ View
    \/ \E k \in MoveKeys : KeyMove(k)
    \/ KeyPreview
    \/ \E p \in previews : PreviewLoaded(p)
    \/ RunPreviewCmd

LoadSpec == Init /\ [][LoadNext]_vars

\* Editing the query: the search keys, the clear-search tick, moves, and
\* Backspace in both of its roles.
QueryNext ==
    \/ View
    \/ \E k \in MoveKeys : KeyMove(k)
    \/ \E ch \in Runes : SearchRune(ch)
    \/ SearchExit
    \/ SearchBack
    \/ KeyBack
    \/ KeySearch
    \/ ClearSearch

QuerySpec == Init /\ [][QueryNext]_vars

\* Search mode left alone: in Search mode the only keys are query characters,
\* in Browse mode Up, Down, the resizes and '/'.  The runtime renders after
\* every Update and delivers every tick two seconds after it was scheduled,
\* so a render or a tick that stays possible happens.
ExpiryNext ==
    \/ View
    \/ KeySearch
    \/ \E ch \in Runes : SearchRune(ch)
    \/ ClearSearch
    \/ ~searchMode /\ \E k \in {"up", "down"} : KeyMove(k)
    \/ ~searchMode /\ \E s \in WideSizes : Resize(s[1], s[2])

ExpirySpec ==
    Init /\ [][ExpiryNext]_vars /\ WF_vars(View) /\ WF_vars(ClearSearch)

\* The preview pane in one directory: the toggle, the loads, moves, resizes
\* to the wide size.
PreviewNext ==
    \/ View
    \/ \E s \in WideSizes : Resize(s[1], s[2])
    \/ \E k \in MoveKeys : KeyMove(k)
    \/ KeyPreview
    \/ \E p \in previews : PreviewLoaded(p)
    \/ RunPreviewCmd

PreviewSpec == Init /\ [][PreviewNext]_vars

\* Selecting with the preview pane: the toggle, the loads, moves, queries.
SelectNext ==
    \/ View
    \/ \E k \in MoveKeys : KeyMove(k)
    \/ KeySearch
    \/ \E ch \in Runes : SearchRune(ch)
    \/ KeyPreview
    \/ \E p \in previews : PreviewLoaded(p)
    \/ RunPreviewCmd

SelectSpec == Init /\ [][SelectNext]_vars

\* The navigator and the layout alone: the program after its first render
\* and a first resize, in a directory with any listing, at any terminal size.
NavInit ==
    /\ path = RootPath
    /\ files \in Listings
    /\ c = 0 /\ r = 0
    /\ columns = 1
    /\ rows = Len(files)
    /\ width \in 1..MaxWidth
    /\ height \in 3..MaxHeight
    /\ offset = 0
    /\ positions = [p \in Paths |-> NoPos]
    /\ search = <<>>
    /\ searchMode = FALSE
    /\ searchId = 0
    /\ prevName = (IF files = <<>> THEN <<>> ELSE files[1].name)
    /\ findPrevName = (files # <<>>)
    /\ exitCode = 0
    /\ previewMode = FALSE
    /\ previewContent = NoContent
    /\ phase = "view"
    /\ fault = "none"
    /\ lastMsg = ResizeMsg
    /\ lastCmd = "nil"
    /\ timers = <<>>
    /\ cmds = 0
    /\ previews = {}
    /\ stdout = <<>>

NavNext == View \/ \E k \in MoveKeys : KeyMove(k)

NavSpec == NavInit /\ [][NavNext]_vars

----------------------------------------------------------------------------
(* The claims. *)

Index == c * rows + r

C2_ColumnWidth(i) ==
    LET lens == {CellLen(files, rows, i, j) : j \in 0..(rows - 1)}
    IN  CHOOSE m \in lens : \A x \in lens : x <= m

RECURSIVE C2_Sum(_)
C2_Sum(i) == IF i < 0 THEN 0 ELSE C2_ColumnWidth(i) + C2_Sum(i - 1)

C2_RowWidth == C2_Sum(columns - 1) + SeparatorLen * (columns - 1)

\* C2 (NavSpec): the layout View ends with has columns >= 1,
\* rows = ceil(N/columns), and either one column or rows no wider than the
\* display width.
C2_LayoutFit ==
    (phase = "update" /\ fault = "none") =>
        /\ columns >= 1
        /\ columns * rows >= Len(files)
        /\ columns * (rows - 1) < Len(files) \/ rows = 0
        /\ rows = 0 => Len(files) = 0
        /\ columns = 1 \/ rows = 0 \/ C2_RowWidth <= ViewWidth

\* a render that went back to the label start at least once and ended with
\* several columns
C2_Witness ==
    /\ phase = "update"
    /\ fault = "none"
    /\ columns > 1
    /\ columns < InitialColumns(Len(files), listHeight)
    /\ C2_RowWidth = ViewWidth

\* C3 (NavSpec): the layout step of View never stops with a runtime fault,
\* whatever the entry count and the terminal size.
C3_LayoutNeverFaults == fault # "integer divide by zero"

RECURSIVE C4_Down(_, _)
\* Down applied k times
C4_Down(cur, k) ==
    IF k = 0 THEN cur
    ELSE LET p == C4_Down(cur, k - 1)
         IN  moveDown(p.c, p.r, columns, rows, Len(files))

\* C4 (NavSpec): from every cell that holds an entry, Down applied once per
\* entry visits the entries in linear-index order and ends on the cell it
\* started from.
C4_DownCycle ==
    (phase = "update" /\ fault = "none" /\ Len(files) > 0) =>
        \A i \in 0..(Len(files) - 1) :
            \A k \in 1..Len(files) :
                LET to == C4_Down(Cur(i \div rows, i % rows), k)
                IN  to.c * rows + to.r = (i + k) % Len(files)

\* C5 (BrowseSpec): Enter into a directory that has a saved position leaves
\* (column, row, offset) equal to the saved triple.
C5_RoundTrip ==
    [][(/\ phase = "update"
        /\ lastMsg' = KeyMsg("enter")
        /\ path' # path
        /\ positions[path'].set)
       => (/\ c' = positions[path'].c
           /\ r' = positions[path'].r
           /\ offset' = positions[path'].offset)]_vars

\* C6 (SearchSpec): a query character typed in Search mode puts the cursor
\* on the top-ranked match, column = index/rows and row = index%rows, and
\* leaves it where it is when nothing matches.
C6_SearchRelocation ==
    [][(/\ phase = "update"
        /\ searchMode
        /\ lastMsg'.type = "rune"
        /\ fault' = "none")
       => IF Matched(search', files) # {}
          THEN /\ c' * rows + r' = TopIndex(search', files)
               /\ 0 <= r' /\ r' < rows
               /\ files[c' * rows + r' + 1].name \in
                      {files[i + 1].name : i \in Matched(search', files)}
          ELSE c' = c /\ r' = r]_vars

\* a query whose top-ranked match is not its first match, found in a grid of
\* several columns
C6_Witness ==
    /\ phase = "view"
    /\ lastMsg.type = "rune"
    /\ searchMode
    /\ Matched(search, files) # {}
    /\ Index = TopIndex(search, files)
    /\ \E i \in Matched(search, files) : i < Index
    /\ c > 0

\* C7 as stated (SearchSpec): a clear-search tick delivered while a later
\* tick is in flight, that is after a newer query keystroke, leaves Search
\* mode active.
C7_NewerKeystrokeKeepsSearch ==
    [][(/\ phase = "update"
        /\ lastMsg'.type = "clearSearch"
        /\ searchMode
        /\ Len(timers) > 1)
       => searchMode']_vars

\* C7 as amended (SearchSpec): a clear-search tick leaves Search mode active
\* exactly when Search mode was activated again after the tick was
\* scheduled; a tick of the current activation ends Search mode, newer
\* keystrokes or not.
C7_LaterActivationKeepsSearch ==
    [][(/\ phase = "update"
        /\ lastMsg'.type = "clearSearch"
        /\ searchMode)
       => (searchMode' <=> Head(timers) < searchId)]_vars

\* a tick of an earlier activation was delivered in Search mode
C7_Witness ==
    /\ phase = "view"
    /\ lastMsg.type = "clearSearch"
    /\ lastMsg.id < searchId
    /\ searchMode
    /\ search # <<>>

\* C8 (SearchSpec): the search id never decreases, grows by one when Search
\* mode is activated from Browse mode, and a clear-search tick with another
\* tag changes no field of the model.
C8_SessionId ==
    [][/\ searchId' >= searchId
       /\ (~searchMode /\ searchMode') => searchId' = searchId + 1
       /\ (/\ phase = "update"
           /\ lastMsg'.type = "clearSearch"
           /\ lastMsg'.id # searchId)
          => UNCHANGED <<path, files, c, r, columns, rows, width, height,
                         offset, positions, search, searchMode, searchId,
                         prevName, findPrevName, exitCode, previewMode,
                         previewContent>>]_vars

\* the second activation, with a tick of the first delivered during it
C8_Witness ==
    /\ phase = "view"
    /\ searchId = 2
    /\ searchMode
    /\ lastMsg = ClearMsg(1)

\* C9 (PreviewSpec): right after Update has processed a resize or the
\* preview key, the position map has no entry.
C9_PositionsCleared ==
    (/\ phase = "view"
     /\ fault = "none"
     /\ lastMsg \in {ResizeMsg, KeyMsg(" ")})
    => \A p \in Paths : ~positions[p].set

\* the preview key was processed with the cursor on an entry away from the
\* first one, where a position had been saved
C9_Witness ==
    /\ phase = "view"
    /\ lastMsg = KeyMsg(" ")
    /\ findPrevName
    /\ Index > 0
    /\ \A p \in Paths : ~positions[p].set

\* the entry m.filePath() names, when there is one
Selected == IF FileNameOk THEN filePath ELSE <<>>

\* C10 (SelectSpec): in Preview mode, an Update that changes the selected
\* entry, or activates Preview mode on an entry, returns a preview load.
C10_SelectionLoadsPreview ==
    [][(/\ phase = "update"
        /\ phase' = "view"
        /\ fault' = "none"
        /\ previewMode'
        /\ Selected' # <<>>
        /\ Selected' # Selected \/ ~previewMode)
       => lastCmd' \in {"previewCmd", "sequence"}]_vars

\* how the session ended, once it has
C11_Ended ==
    phase = "done" =>
        \/ lastMsg = KeyMsg("esc") /\ exitCode = 0 /\ stdout = <<path>>
        \/ lastMsg = KeyMsg("ctrl+c") /\ exitCode = ForcedExit /\ stdout = <<>>

\* C11 (SearchSpec): in Browse and in Search mode, Esc and Ctrl+C are both
\* taken as quit keys; Esc ends the session with exit code 0 and the current
\* path written once to standard output, Ctrl+C ends it with exit code 2 and
\* nothing written; the exit code is 2 exactly when Ctrl+C ended the session.
C11_QuitOutcomes ==
    /\ C11_Ended
    /\ Ready => (ENABLED KeyQuit /\ ENABLED KeyForceQuit)
    /\ exitCode = ForcedExit <=> (phase = "done" /\ lastMsg = KeyMsg("ctrl+c"))
    /\ phase # "done" => stdout = <<>>

\* Esc pressed in Search mode with a query typed, in a subdirectory
C11_Witness ==
    /\ phase = "done"
    /\ lastMsg = KeyMsg("esc")
    /\ searchMode
    /\ search # <<>>
    /\ path = GPath
    /\ stdout = <<GPath>>

\* C12 (BrowseSpec): the render that follows a Backspace out of a directory
\* into a parent with no saved position ends with the cursor on the cell of
\* the entry named like the directory left, in the final layout, and with
\* that (column, row, offset) saved for the parent.
C12_FindPrevName ==
    [][(/\ phase = "view"
        /\ phase' = "update"
        /\ lastMsg = KeyMsg("backspace")
        /\ findPrevName
        /\ IsDir(Join(path, prevName)))
       => (/\ 0 <= r' /\ r' < rows'
           /\ 0 <= c' /\ c' < columns'
           /\ c' * rows' + r' < Len(files)
           /\ files[c' * rows' + r' + 1].name = prevName
           /\ positions'[path] = Pos(c', r', offset'))]_vars

\* back from the directory l, left after a key was pressed in it: the cursor
\* is on l, the last of four entries, in a grid of several columns
C12_Witness ==
    /\ phase = "update"
    /\ fault = "none"
    /\ path = RootPath
    /\ positions[LPath].set
    /\ prevName = <<"l">>
    /\ columns > 1
    /\ Index = 3
    /\ positions[RootPath] = Pos(c, r, offset)

\* C13 (QuerySpec): Backspace in Search mode with a query removes the last
\* character and leaves the cursor on the top-ranked match of the shorter
\* query when that query is not empty and matches; with an empty query it
\* ascends to the parent directory.
C13_BackspaceRematches ==
    [][(/\ phase = "update"
        /\ searchMode
        /\ lastMsg' = KeyMsg("backspace")
        /\ fault' = "none")
       => IF search # <<>>
          THEN /\ search' = SubSeq(search, 1, Len(search) - 1)
               /\ path' = path
               /\ (search' # <<>> /\ Matched(search', files) # {})
                  => c' * rows + r' = TopIndex(search', files)
          ELSE /\ path' = Parent(path)
               /\ ~searchMode']_vars

\* C14 (NavSpec): in every layout View ends with for a non-empty directory,
\* only the last column is short: 0 <= columns*rows - N < rows, so the last
\* column holds at least one entry and every other column holds rows.
C14_RaggedLastColumn ==
    (phase = "update" /\ fault = "none" /\ Len(files) > 0) =>
        /\ 0 <= columns * rows - Len(files)
        /\ columns * rows - Len(files) < rows

\* C15 (NavSpec): in a non-empty directory, after every key and the render
\* that follows it, the cursor is inside the grid: 0 <= column < columns and
\* 0 <= row < rows; no move leaves a negative row.
C15_CursorInGrid ==
    (phase = "update" /\ fault = "none" /\ Len(files) > 0) =>
        /\ 0 <= c /\ c < columns
        /\ 0 <= r /\ r < rows

\* C16 (ExpirySpec): once a query character has been typed in Search mode,
\* and nothing but query characters is typed after it, Search mode is
\* eventually left.
C16_SearchExpires ==
    (phase = "view" /\ searchMode /\ lastMsg.type = "rune") ~> ~searchMode

\* the tick of the current activation has ended Search mode, the query still
\* in place
C16_Witness ==
    /\ phase = "view"
    /\ fault = "none"
    /\ ~searchMode
    /\ lastMsg = ClearMsg(searchId)
    /\ search # <<>>
    /\ timers = <<>>

\* C17 (LoadSpec): in Preview mode, once every preview load that was
\* issued has run and every completion has been delivered, in whatever
\* order, the preview content is that of the selected entry.
C17_PreviewOfSelection ==
    (/\ phase = "update"
     /\ fault = "none"
     /\ previewMode
     /\ cmds = 0
     /\ previews = {}
     /\ FileNameOk)
    => previewContent = Content(filePath)

\* C18 (BrowseSpec): after any sequence of keys, in any directory, the empty
\* one included, m.fileName() as called by Enter and by a resize either
\* returns the entry at index column*rows+row, in [0, N), or reports that
\* there is none; it never indexes the listing out of its range.
C18_LookupNeverFaults == fault # "index out of range"

\* C19 (BrowseSpec): in a non-empty directory, the position saved for the
\* current directory has its row inside the visible window:
\* 0 <= offset <= row < offset + listHeight.
C19_ScrollWindow ==
    (fault = "none" /\ Len(files) > 0 /\ positions[path].set) =>
        /\ 0 <= positions[path].offset
        /\ positions[path].offset <= positions[path].r
        /\ positions[path].r < positions[path].offset + listHeight

\* C20 (PreviewSpec): a resize or a preview toggle processed with the cursor
\* on an entry records that entry's name and leaves the path, the listing
\* and the query alone; the render that follows leaves the cursor, in the
\* new layout, on the entry of that name, and leaves the same three alone.
C20_SelectionKept ==
    [][/\ (/\ phase = "update"
           /\ phase' = "view"
           /\ lastMsg' \in {ResizeMsg, KeyMsg(" ")}
           /\ FileNameOk)
          => (/\ prevName' = fileName
              /\ findPrevName'
              /\ UNCHANGED <<path, files, search>>)
       /\ (/\ phase = "view"
           /\ phase' = "update"
           /\ lastMsg \in {ResizeMsg, KeyMsg(" ")}
           /\ findPrevName)
          => (/\ 0 <= r' /\ r' < rows'
              /\ 0 <= c' /\ c' < columns'
              /\ c' * rows' + r' < Len(files)
              /\ files[c' * rows' + r' + 1].name = prevName
              /\ UNCHANGED <<path, files, search>>)]_vars

\* the preview pane was opened at width 16 with the cursor on k, the fourth
\* of five entries: the grid went from 4 by 2 to 2 by 3 and the cursor from
\* (1,1) to (1,0)
C20_Witness ==
    /\ phase = "update"
    /\ fault = "none"
    /\ path = GPath
    /\ previewMode
    /\ width = 16
    /\ columns = 2
    /\ rows = 3
    /\ prevName = <<"k">>
    /\ c = 1
    /\ r = 0
    /\ positions[GPath] = Pos(1, 0, offset)

====
